---- MODULE Spec2Model ----
(***************************************************************************)
(* User-Based SoD conflict analyzer (src/app.py).                          *)
(*                                                                         *)
(* Text values are sequences of one-character strings, so that strip,      *)
(* upper, split and substring tests are computed as Python computes them.  *)
(* A DataFrame built by the code is a sequence of records (row order is    *)
(* kept); an uploaded sheet is a record of its column headers and rows.    *)
(***************************************************************************)
EXTENDS Integers, Sequences, FiniteSets, TLC

(***************************************************************************)
(* Bounds of the model.                                                    *)
(***************************************************************************)
\* the most rows of an uploaded risk sheet
MaxRiskRows == 2
MaxRoleRows == 2

(***************************************************************************)
(* Python str primitives.                                                   *)
(***************************************************************************)
\* Characters in code point order (str comparison is by code point).
Alphabet ==
  << " ", ",", "-", "0", "1", "2", "3", "4", "5", "6", "7", "8", "9",
     "A", "B", "C", "D", "E", "F", "G", "H", "I", "J", "K", "L", "M",
     "N", "O", "P", "Q", "R", "S", "T", "U", "V", "W", "X", "Y", "Z",
     "_",
     "a", "b", "c", "d", "e", "f", "g", "h", "i", "j", "k", "l", "m",
     "n", "o", "p", "q", "r", "s", "t", "u", "v", "w", "x", "y", "z" >>

UpperCase == SubSeq(Alphabet, 14, 39)
LowerCase == SubSeq(Alphabet, 41, 66)

Chars == {Alphabet[i] : i \in 1..Len(Alphabet)}

\* ord(c), c.upper() and c.lower() as tables over the alphabet
OrdTable == [c \in Chars |-> CHOOSE i \in 1..Len(Alphabet) : Alphabet[i] = c]

UpperTable ==
  [c \in Chars |->
     IF \E i \in 1..Len(LowerCase) : LowerCase[i] = c
     THEN UpperCase[CHOOSE i \in 1..Len(LowerCase) : LowerCase[i] = c]
     ELSE c]

LowerTable ==
  [c \in Chars |->
     IF \E i \in 1..Len(UpperCase) : UpperCase[i] = c
     THEN LowerCase[CHOOSE i \in 1..Len(UpperCase) : UpperCase[i] = c]
     ELSE c]

Ord(c) == OrdTable[c]
upper_char(c) == UpperTable[c]
lower_char(c) == LowerTable[c]

\* s.upper(), s.lower()
str_upper(s) == [i \in 1..Len(s) |-> upper_char(s[i])]
str_lower(s) == [i \in 1..Len(s) |-> lower_char(s[i])]

\* s.strip()
str_strip(s) ==
  LET ink == {i \in 1..Len(s) : s[i] # " "}
  IN  IF ink = {} THEN <<>>
      ELSE SubSeq(s, CHOOSE i \in ink : \A j \in ink : i <= j,
                     CHOOSE i \in ink : \A j \in ink : j <= i)

\* the positions at which sub occurs in s
Occurrences(s, sub) ==
  {i \in 1..(Len(s) - Len(sub) + 1) : SubSeq(s, i, i + Len(sub) - 1) = sub}

\* sub in s
str_contains(s, sub) == Occurrences(s, sub) # {}

\* s.split(sep), sep not empty
RECURSIVE str_split(_, _)
str_split(s, sep) ==
  LET occ == Occurrences(s, sep)
  IN  IF occ = {} THEN <<s>>
      ELSE LET i == CHOOSE k \in occ : \A j \in occ : k <= j
           IN  <<SubSeq(s, 1, i - 1)>>
                 \o str_split(SubSeq(s, i + Len(sep), Len(s)), sep)

\* s.replace(old, new) for a one-character old
str_replace(s, old, new) == [i \in 1..Len(s) |-> IF s[i] = old THEN new ELSE s[i]]

\* a < b, the order sorted() uses on str
RECURSIVE str_lt(_, _)
str_lt(a, b) ==
  IF b = <<>> THEN FALSE
  ELSE IF a = <<>> THEN TRUE
  ELSE IF a[1] # b[1] THEN Ord(a[1]) < Ord(b[1])
  ELSE str_lt(Tail(a), Tail(b))

\* sorted(S) of a set of str
RECURSIVE sorted(_)
sorted(S) ==
  IF S = {} THEN <<>>
  ELSE LET m == CHOOSE x \in S : \A y \in S : x = y \/ str_lt(x, y)
       IN  <<m>> \o sorted(S \ {m})

\* sep.join(seq)
RECURSIVE str_join(_, _)
str_join(sep, seq) ==
  IF seq = <<>> THEN <<>>
  ELSE IF Len(seq) = 1 THEN seq[1]
  ELSE seq[1] \o sep \o str_join(sep, Tail(seq))

\* the missing value of a cell (NaN), and str(NaN)
NaN == <<"NaN">>
notna(val) == val # NaN
str(val) == IF val = NaN THEN <<"n", "a", "n">> ELSE val

(***************************************************************************)
(* DataFrame primitives.                                                    *)
(***************************************************************************)
Range(f) == {f[i] : i \in DOMAIN f}

RECURSIVE Flatten(_)
Flatten(ss) == IF ss = <<>> THEN <<>> ELSE ss[1] \o Flatten(Tail(ss))

\* DataFrame.drop_duplicates(): the first of equal rows is kept
RECURSIVE drop_duplicates(_)
drop_duplicates(s) ==
  IF s = <<>> THEN <<>>
  ELSE LET r == drop_duplicates(SubSeq(s, 1, Len(s) - 1))
           x == s[Len(s)]
       IN  IF x \in Range(r) THEN r ELSE Append(r, x)

\* Series.unique(): distinct values in order of first appearance
unique(s) == drop_duplicates(s)

\* row.get(col, default) on a row of a sheet
row_get(sheet, row, col, default) ==
  LET at == {i \in 1..Len(sheet.columns) : sheet.columns[i] = col}
  IN  IF at = {} THEN default
      ELSE row[CHOOSE i \in at : \A j \in at : i <= j]

\* the first element of a sequence that satisfies a test, or none: next((...), None)
FirstIndex(tests) ==
  LET at == {i \in 1..Len(tests) : tests[i]}
  IN  IF at = {} THEN 0 ELSE CHOOSE i \in at : \A j \in at : i <= j

\* the indices at which a sequence of tests holds, in order: [c for c in ... if ...]
RECURSIVE IndicesWhere(_, _)
IndicesWhere(tests, n) ==
  IF n = 0 THEN <<>>
  ELSE IF tests[n] THEN Append(IndicesWhere(tests, n - 1), n)
  ELSE IndicesWhere(tests, n - 1)

\* Helper: normalize colnames
normalize_colname(col) ==
  str_replace(str_replace(str_lower(str_strip(col)), " ", "_"), "-", "_")

normalize_columns(sheet) ==
  [sheet EXCEPT !.columns = [i \in 1..Len(sheet.columns) |-> normalize_colname(sheet.columns[i])]]

(***************************************************************************)
(* The string literals of the code.                                        *)
(***************************************************************************)
S_user_id == <<"u", "s", "e", "r", "_", "i", "d">>
S_user_name == <<"u", "s", "e", "r", "_", "n", "a", "m", "e">>
S_role == <<"r", "o", "l", "e">>
S_tcode == <<"t", "c", "o", "d", "e">>
S_t_code == <<"t", "_", "c", "o", "d", "e">>
S_function_id == <<"f", "u", "n", "c", "t", "i", "o", "n", "_", "i", "d">>
S_functionid == <<"f", "u", "n", "c", "t", "i", "o", "n", "i", "d">>
S_action == <<"a", "c", "t", "i", "o", "n">>
S_t_codes == <<"t", "_", "c", "o", "d", "e", "s">>
S_conflicting_function ==
  <<"c", "o", "n", "f", "l", "i", "c", "t", "i", "n", "g", "_",
    "f", "u", "n", "c", "t", "i", "o", "n">>
S_access_risk_id ==
  <<"a", "c", "c", "e", "s", "s", "_", "r", "i", "s", "k", "_", "i", "d">>
S_nan == <<"n", "a", "n">>
S_NaN == <<"N", "a", "N">>
S_None == <<"N", "o", "n", "e">>
S_dash == <<" ", "-", " ">>
S_comma == <<",">>
S_comma_space == <<",", " ">>

\* None: the value of an uploader with no file, and what a loader returns
\* when it caught an exception
None == [none |-> TRUE]
is_none(v) == "none" \in DOMAIN v

\* an uploaded file that pandas cannot read
Unreadable == [unreadable |-> TRUE]
is_unreadable(file) == "unreadable" \in DOMAIN file

(***************************************************************************)
(* load_user_data_from_upload: the sheet with normalized column names, or  *)
(* None when the file cannot be read.                                      *)
(***************************************************************************)
load_user_data_from_upload(user_file) ==
  IF is_unreadable(user_file) THEN None ELSE normalize_columns(user_file)

(***************************************************************************)
(* load_role_tcode_mapping_from_upload: roles_file is the sequence of the  *)
(* selected sheets.  Each sheet that has a role column and a tcode column  *)
(* gives its (role, tcode) rows without missing values; the tcode field is *)
(* split on commas.  The result is None or [df |-> the DataFrame].         *)
(***************************************************************************)
\* the codes of a comma-separated field: split, strip, upper, drop empty
expand_tcodes(tcodes) ==
  LET parts == str_split(tcodes, S_comma)
      codes == [i \in 1..Len(parts) |-> str_upper(str_strip(parts[i]))]
  IN  SelectSeq(codes, LAMBDA c : c # <<>>)

role_sheet_mapping(sheet) ==
  LET df == normalize_columns(sheet)
      role_col == FirstIndex([i \in 1..Len(df.columns) |-> str_contains(df.columns[i], S_role)])
      tcode_col == FirstIndex([i \in 1..Len(df.columns) |->
                      str_contains(df.columns[i], S_tcode) \/ str_contains(df.columns[i], S_t_code)])
  IN  IF role_col # 0 /\ tcode_col # 0
      THEN <<  \* df[[role_cols[0], tcode_cols[0]]].dropna()
             SelectSeq([i \in 1..Len(df.rows) |->
                          [role |-> df.rows[i][role_col], tcode |-> df.rows[i][tcode_col]]],
                       LAMBDA r : notna(r.role) /\ notna(r.tcode)) >>
      ELSE <<>>

expand_role_row(row) ==
  LET role == str_upper(str_strip(str(row.role)))
      tcodes == str_strip(str(row.tcode))
  IN  IF tcodes # <<>> /\ tcodes \notin {S_nan, S_NaN, <<>>}
      THEN LET codes == expand_tcodes(tcodes)
           IN  [i \in 1..Len(codes) |-> [role |-> role, tcode |-> codes[i]]]
      ELSE <<>>

\* load_role_tcode_mapping_from_upload with "return pd.DataFrame(expanded_mapping)"
load_role_tcode_mapping_without_drop_duplicates(roles_file) ==
  IF is_unreadable(roles_file) THEN None
  ELSE LET role_tcode_data == Flatten([i \in 1..Len(roles_file.sheets) |->
                                          role_sheet_mapping(roles_file.sheets[i])])
       IN  IF role_tcode_data # <<>>
           THEN LET combined_mapping == Flatten(role_tcode_data)
                IN  [df |-> Flatten([i \in 1..Len(combined_mapping) |->
                                       expand_role_row(combined_mapping[i])])]
           ELSE [df |-> <<>>]

load_role_tcode_mapping_from_upload(roles_file) ==
  IF is_unreadable(roles_file) THEN None
  ELSE LET role_tcode_data == Flatten([i \in 1..Len(roles_file.sheets) |->
                                          role_sheet_mapping(roles_file.sheets[i])])
       IN  IF role_tcode_data # <<>>
           THEN LET combined_mapping == Flatten(role_tcode_data)
                IN  [df |-> drop_duplicates(Flatten([i \in 1..Len(combined_mapping) |->
                                                       expand_role_row(combined_mapping[i])]))]
           ELSE [df |-> <<>>]

(***************************************************************************)
(* load_user_role_assignments_from_upload: one (user_id, user_name, role)  *)
(* row per non-empty cell of every column whose name contains "role".      *)
(***************************************************************************)
user_row_assignments(user_data, role_columns, row) ==
  LET user_id == str_strip(str(row_get(user_data, row, S_user_id, <<>>)))
      user_name == str_strip(str(row_get(user_data, row, S_user_name, <<>>)))
      roles == [k \in 1..Len(role_columns) |-> str_upper(str_strip(str(row[role_columns[k]])))]
      kept == SelectSeq(roles, LAMBDA role : role # <<>> /\ role \notin {S_nan, S_NaN, <<>>})
  IN  [k \in 1..Len(kept) |-> [user_id |-> user_id, user_name |-> user_name, role |-> kept[k]]]

load_user_role_assignments_from_upload(user_data) ==
  LET role_columns == IndicesWhere([i \in 1..Len(user_data.columns) |->
                                      str_contains(user_data.columns[i], S_role)],
                                   Len(user_data.columns))
  IN  IF role_columns # <<>>
      THEN drop_duplicates(Flatten([i \in 1..Len(user_data.rows) |->
                                      user_row_assignments(user_data, role_columns, user_data.rows[i])]))
      ELSE <<>>

(***************************************************************************)
(* create_user_tcode_mapping: the inner join of the user-role rows with    *)
(* the role-tcode rows on role (left row order, then right row order).     *)
(* The result is a table with its column names: pd.DataFrame() has neither *)
(* rows nor columns, a join without a match has the columns and no row.    *)
(***************************************************************************)
\* pd.DataFrame()
EmptyDataFrame == [columns |-> {}, rows |-> <<>>]

\* df.empty
empty(df) == df.rows = <<>>

create_user_tcode_mapping(user_roles, role_tcodes) ==
  IF user_roles = <<>> \/ role_tcodes = <<>> THEN EmptyDataFrame
  ELSE [columns |-> {"user_id", "user_name", "role", "tcode"},
        rows |-> Flatten([i \in 1..Len(user_roles) |->
          LET m == SelectSeq(role_tcodes, LAMBDA rt : rt.role = user_roles[i].role)
          IN  [k \in 1..Len(m) |->
                [user_id |-> user_roles[i].user_id, user_name |-> user_roles[i].user_name,
                 role |-> user_roles[i].role, tcode |-> m[k].tcode]]])]

(***************************************************************************)
(* load_risk_data_from_upload: risk_file holds the two sheets "Function    *)
(* T-Code Mapping" and "Risk Function Mapping".  The result is None (the   *)
(* exception handler) or the function map and the risk pairs.              *)
(***************************************************************************)
expand_function_row(row) ==
  LET function_id == str_upper(str_strip(str(row.function_id)))
      tcodes == str_strip(str(row.tcode))
  IN  IF tcodes # <<>> /\ str_lower(tcodes) \notin {S_nan, <<>>}
      THEN LET codes == expand_tcodes(tcodes)
           IN  [i \in 1..Len(codes) |-> [function_id |-> function_id, tcode |-> codes[i]]]
      ELSE <<>>

\* the function code of a "CODE - description" cell
conflicting_function(val) ==
  LET v == str_upper(str_strip(str(val)))
  IN  IF str_contains(v, S_dash) THEN str_strip(str_split(v, S_dash)[1]) ELSE v

\* conflict_cols: the columns whose name contains "conflicting_function"
conflict_columns(risk_sheet) ==
  IndicesWhere([i \in 1..Len(risk_sheet.columns) |->
                  str_contains(risk_sheet.columns[i], S_conflicting_function)],
               Len(risk_sheet.columns))

\* sorted(list): insertion sort, duplicates kept
RECURSIVE sorted_list(_)
sorted_list(seq) ==
  IF seq = <<>> THEN <<>>
  ELSE LET rest == sorted_list(Tail(seq))
           below == SelectSeq(rest, LAMBDA x : str_lt(x, seq[1]))
           above == SelectSeq(rest, LAMBDA x : ~str_lt(x, seq[1]))
       IN  below \o <<seq[1]>> \o above

\* risk_row_pairs with "functions = sorted(functions)": the set() is left out
risk_row_pairs_without_set(risk_sheet, conflict_cols, row) ==
  LET risk_id == str_upper(str_strip(str(row_get(risk_sheet, row, S_access_risk_id, <<>>))))
      present == SelectSeq([k \in 1..Len(conflict_cols) |-> row[conflict_cols[k]]], notna)
      functions == sorted_list([k \in 1..Len(present) |-> conflicting_function(present[k])])
      n == Len(functions)
  IN  Flatten([i \in 1..n |->
        [d \in 1..(n - i) |->
          [risk_id |-> risk_id, function_1 |-> functions[i], function_2 |-> functions[i + d]]]])

\* risk_row_pairs with "for j in range(i + 1, len(functions) - 1)"
risk_row_pairs_short_loop(risk_sheet, conflict_cols, row) ==
  LET risk_id == str_upper(str_strip(str(row_get(risk_sheet, row, S_access_risk_id, <<>>))))
      present == SelectSeq([k \in 1..Len(conflict_cols) |-> row[conflict_cols[k]]], notna)
      functions == sorted({conflicting_function(present[k]) : k \in 1..Len(present)})
      n == Len(functions)
  IN  Flatten([i \in 1..n |->
        [d \in 1..(IF n - i - 1 > 0 THEN n - i - 1 ELSE 0) |->
          [risk_id |-> risk_id, function_1 |-> functions[i], function_2 |-> functions[i + d]]]])

\* the pairs one row of the risk sheet gives, in the order of the two loops
risk_row_pairs(risk_sheet, conflict_cols, row) ==
  LET risk_id == str_upper(str_strip(str(row_get(risk_sheet, row, S_access_risk_id, <<>>))))
      present == SelectSeq([k \in 1..Len(conflict_cols) |-> row[conflict_cols[k]]], notna)
      functions == sorted({conflicting_function(present[k]) : k \in 1..Len(present)})
      n == Len(functions)
  IN  Flatten([i \in 1..n |->
        [d \in 1..(n - i) |->
          [risk_id |-> risk_id, function_1 |-> functions[i], function_2 |-> functions[i + d]]]])

\* func_tcodes: per function id the sorted distinct tcodes joined with ", ";
\* NaN for a function the left merge finds no row for
func_tcodes(function_map_expanded, function_id) ==
  LET codes == {function_map_expanded[i].tcode :
                  i \in {j \in 1..Len(function_map_expanded) :
                           function_map_expanded[j].function_id = function_id}}
  IN  IF codes = {} THEN NaN ELSE str_join(S_comma_space, sorted(codes))

load_risk_data_from_upload(risk_file) ==
  IF is_unreadable(risk_file) THEN None
  ELSE
  LET function_map == normalize_columns(risk_file.function_sheet)
      func_id_col == FirstIndex([i \in 1..Len(function_map.columns) |->
                        function_map.columns[i] \in {S_function_id, S_functionid}])
      tcode_col == FirstIndex([i \in 1..Len(function_map.columns) |->
                      /\ str_contains(function_map.columns[i], S_action)
                      /\ \/ str_contains(function_map.columns[i], S_tcode)
                         \/ str_contains(function_map.columns[i], S_t_codes)])
      risk_pairs == normalize_columns(risk_file.risk_sheet)
      conflict_cols == conflict_columns(risk_pairs)
  IN  IF func_id_col = 0 \/ tcode_col = 0 THEN None      \* ValueError
      ELSE IF conflict_cols = <<>> THEN None             \* ValueError
      ELSE
      LET function_map_expanded ==
            drop_duplicates(Flatten([i \in 1..Len(function_map.rows) |->
              expand_function_row([function_id |-> function_map.rows[i][func_id_col],
                                   tcode |-> function_map.rows[i][tcode_col]])]))
          risk_pairs_df ==
            drop_duplicates(Flatten([i \in 1..Len(risk_pairs.rows) |->
              risk_row_pairs(risk_pairs, conflict_cols, risk_pairs.rows[i])]))
      IN  \* groupby("function_id") and merge(left_on="function_1") raise KeyError
          \* on a DataFrame built from an empty list, which has no columns
          IF function_map_expanded = <<>> \/ risk_pairs_df = <<>> THEN None
          ELSE [function_map |-> function_map_expanded,
                risk_pairs |->
                  [i \in 1..Len(risk_pairs_df) |->
                    [risk_id |-> risk_pairs_df[i].risk_id,
                     function_1 |-> risk_pairs_df[i].function_1,
                     function_2 |-> risk_pairs_df[i].function_2,
                     tcode1 |-> func_tcodes(function_map_expanded, risk_pairs_df[i].function_1),
                     tcode2 |-> func_tcodes(function_map_expanded, risk_pairs_df[i].function_2)]]]

(***************************************************************************)
(* analyze_conflicts: the bulk query.  user_tcodes is joined with the      *)
(* function map on tcode, then with the risk pairs on function_1, then     *)
(* with the user's functions again on (function_2, user_id); the selected  *)
(* columns are deduplicated.                                               *)
(***************************************************************************)
\* user_tcodes.merge(function_map, on="tcode", how="inner")
merge_user_functions(user_tcodes, function_map) ==
  Flatten([i \in 1..Len(user_tcodes) |->
    LET m == SelectSeq(function_map, LAMBDA f : f.tcode = user_tcodes[i].tcode)
    IN  [k \in 1..Len(m) |->
          [user_id |-> user_tcodes[i].user_id, user_name |-> user_tcodes[i].user_name,
           role |-> user_tcodes[i].role, tcode |-> user_tcodes[i].tcode,
           function_id |-> m[k].function_id]]])

\* user_functions.merge(risk_pairs, left_on="function_id", right_on="function_1")
merge_function_1(user_functions, risk_pairs) ==
  Flatten([i \in 1..Len(user_functions) |->
    LET m == SelectSeq(risk_pairs, LAMBDA r : r.function_1 = user_functions[i].function_id)
    IN  [k \in 1..Len(m) |-> [f1 |-> user_functions[i], risk |-> m[k]]]])

\* merge_function_2 with "user_id" left out of the join keys
merge_function_2_any_user(conflicts, user_functions) ==
  Flatten([i \in 1..Len(conflicts) |->
    LET m == SelectSeq(user_functions,
                       LAMBDA f : f.function_id = conflicts[i].risk.function_2)
    IN  [k \in 1..Len(m) |->
          [user_id |-> conflicts[i].f1.user_id,
           user_name |-> conflicts[i].f1.user_name,
           role_1 |-> conflicts[i].f1.role,
           role_2 |-> m[k].role,
           risk_id |-> conflicts[i].risk.risk_id,
           function_1 |-> conflicts[i].risk.function_1,
           function_2 |-> conflicts[i].risk.function_2,
           tcode1 |-> conflicts[i].risk.tcode1,
           tcode2 |-> conflicts[i].risk.tcode2,
           user_tcode_f1 |-> conflicts[i].f1.tcode,
           user_tcode_f2 |-> m[k].tcode]]])

\* conflicts.merge(user_functions, left_on=["function_2", "user_id"],
\*                 right_on=["function_id", "user_id"]) and the column selection
merge_function_2(conflicts, user_functions) ==
  Flatten([i \in 1..Len(conflicts) |->
    LET m == SelectSeq(user_functions,
                       LAMBDA f : /\ f.function_id = conflicts[i].risk.function_2
                                  /\ f.user_id = conflicts[i].f1.user_id)
    IN  [k \in 1..Len(m) |->
          [user_id |-> conflicts[i].f1.user_id,
           user_name |-> conflicts[i].f1.user_name,
           role_1 |-> conflicts[i].f1.role,
           role_2 |-> m[k].role,
           risk_id |-> conflicts[i].risk.risk_id,
           function_1 |-> conflicts[i].risk.function_1,
           function_2 |-> conflicts[i].risk.function_2,
           tcode1 |-> conflicts[i].risk.tcode1,
           tcode2 |-> conflicts[i].risk.tcode2,
           user_tcode_f1 |-> conflicts[i].f1.tcode,
           user_tcode_f2 |-> m[k].tcode]]])

\* analyze_conflicts without the "if user_tcodes.empty" return
analyze_conflicts_without_empty_test(user_tcodes, function_map, risk_pairs) ==
  IF "tcode" \notin user_tcodes.columns THEN [df |-> <<>>, error |-> TRUE]
  ELSE LET user_functions == merge_user_functions(user_tcodes.rows, function_map)
           conflicts == merge_function_1(user_functions, risk_pairs)
       IN  [df |-> drop_duplicates(merge_function_2(conflicts, user_functions)),
            error |-> FALSE]

\* The result is the table returned and whether the exception handler ran
\* (st.error): a merge on "tcode" of a table without that column raises
\* KeyError.  function_map and risk_pairs are tables that have their columns.
analyze_conflicts(user_tcodes, function_map, risk_pairs) ==
  IF empty(user_tcodes) THEN [df |-> <<>>, error |-> FALSE]
  ELSE IF "tcode" \notin user_tcodes.columns THEN [df |-> <<>>, error |-> TRUE]
  ELSE LET user_functions == merge_user_functions(user_tcodes.rows, function_map)
           conflicts == merge_function_1(user_functions, risk_pairs)
       IN  [df |-> drop_duplicates(merge_function_2(conflicts, user_functions)),
            error |-> FALSE]

(***************************************************************************)
(* analyze_user_conflicts: the single-user query.  The two display strings *)
(* of a conflict ("type" and "description") are not part of the model.     *)
(***************************************************************************)
\* user_function_access without the test of func_id: every function gets
\* the roles and tcodes of all the rows of the user
user_function_access_all_rows(user_func, func_id) ==
  LET rows == {i \in 1..Len(user_func) : notna(user_func[i].function_id)}
  IN  [roles |-> {user_func[i].role : i \in rows},
       tcodes |-> {user_func[i].tcode : i \in rows}]

\* user_function_access[func_id]: the roles and tcodes of the user's rows
\* of user_func that carry func_id
user_function_access(user_func, func_id) ==
  LET rows == {i \in 1..Len(user_func) : user_func[i].function_id = func_id}
  IN  [roles |-> {user_func[i].role : i \in rows},
       tcodes |-> {user_func[i].tcode : i \in rows}]

\* "Skip invalid entries"
invalid_entry(func1_name, func2_name, risk_id) ==
  \/ func1_name = <<>> \/ func2_name = <<>> \/ risk_id = <<>>
  \/ \E x \in {func1_name, func2_name, risk_id} : x \in {S_nan, S_NaN, S_None, <<>>}

\* func_pair with "tuple([func1_name, func2_name])": the sorted() is left out
func_pair_as_stored(func1_name, func2_name) == <<func1_name, func2_name>>

\* tuple(sorted([func1_name, func2_name]))
func_pair(func1_name, func2_name) ==
  IF str_lt(func2_name, func1_name) THEN <<func2_name, func1_name>>
  ELSE <<func1_name, func2_name>>

\* the loop over the risk pairs: the conflicts appended after the first n pairs
RECURSIVE user_conflict_loop(_, _, _, _)
user_conflict_loop(user_func, held, risk_pairs, n) ==
  IF n = 0 THEN [conflicts |-> <<>>, processed_pairs |-> {}]
  ELSE
  LET before == user_conflict_loop(user_func, held, risk_pairs, n - 1)
      risk_pair == risk_pairs[n]
      func1_name == str_strip(str(risk_pair.function_1))
      func2_name == str_strip(str(risk_pair.function_2))
      risk_id == str_strip(str(risk_pair.risk_id))
  IN  IF invalid_entry(func1_name, func2_name, risk_id) THEN before
      ELSE IF /\ func1_name \in held /\ func2_name \in held
              /\ func_pair(func1_name, func2_name) \notin before.processed_pairs
      THEN [conflicts |-> Append(before.conflicts,
              [function_1 |-> func1_name,
               function_2 |-> func2_name,
               risk_id |-> risk_id,
               role_1 |-> str_join(S_comma_space,
                            sorted(user_function_access(user_func, func1_name).roles)),
               role_2 |-> str_join(S_comma_space,
                            sorted(user_function_access(user_func, func2_name).roles)),
               tcode_1 |-> str_join(S_comma_space,
                            sorted(user_function_access(user_func, func1_name).tcodes)),
               tcode_2 |-> str_join(S_comma_space,
                            sorted(user_function_access(user_func, func2_name).tcodes))]),
            processed_pairs |-> before.processed_pairs
                                  \cup {func_pair(func1_name, func2_name)}]
      ELSE before

\* user_data_df.merge(function_map, on="tcode", how="left")
merge_left_functions(user_data_df, function_map) ==
  Flatten([i \in 1..Len(user_data_df) |->
    LET m == SelectSeq(function_map, LAMBDA f : f.tcode = user_data_df[i].tcode)
    IN  IF m = <<>>
        THEN << [user_id |-> user_data_df[i].user_id, user_name |-> user_data_df[i].user_name,
                 role |-> user_data_df[i].role, tcode |-> user_data_df[i].tcode,
                 function_id |-> NaN] >>
        ELSE [k \in 1..Len(m) |->
               [user_id |-> user_data_df[i].user_id, user_name |-> user_data_df[i].user_name,
                role |-> user_data_df[i].role, tcode |-> user_data_df[i].tcode,
                function_id |-> m[k].function_id]]])

column(df, name) == [i \in 1..Len(df) |-> df[i][name]]

\* the report of a user that has rows in user_tcodes
user_report(user_id, user_data_df, function_map, risk_pairs) ==
  LET user_name == user_data_df[1].user_name
      user_roles == unique(column(user_data_df, "role"))
      user_tcodes_list == unique(column(user_data_df, "tcode"))
  IN  IF Len(user_tcodes_list) = 0
      THEN [user_id |-> user_id, user_name |-> user_name, conflicts |-> <<>>,
            functions |-> <<>>, tcodes |-> <<>>, roles |-> user_roles,
            conflict_count |-> 0, error |-> "No T-codes found for user"]
      ELSE
      LET user_func == merge_left_functions(user_data_df, function_map)
          user_functions == unique(SelectSeq(column(user_func, "function_id"), notna))
          conflicts == user_conflict_loop(user_func, Range(user_functions),
                                          risk_pairs, Len(risk_pairs)).conflicts
      IN  [user_id |-> user_id, user_name |-> user_name, roles |-> user_roles,
           functions |-> user_functions, tcodes |-> user_tcodes_list,
           conflicts |-> conflicts, conflict_count |-> Len(conflicts)]

\* the report of the exception handler when user_tcodes["user_id"] raises
\* KeyError: the error is str(e), the name of the key in quotes
key_error_report(user_id) ==
  [user_id |-> user_id, conflicts |-> <<>>, functions |-> <<>>, tcodes |-> <<>>,
   roles |-> <<>>, conflict_count |-> 0, error |-> "'user_id'"]

\* analyze_user_conflicts without the "if user_data_df.empty" return: the
\* name is "", the tcode list is empty and the next test returns
analyze_user_conflicts_without_empty_test(user_id_arg, user_tcodes, function_map, risk_pairs) ==
  LET user_id == str_strip(str(user_id_arg))
      user_data_df == SelectSeq(user_tcodes.rows, LAMBDA r : r.user_id = user_id)
  IN  IF "user_id" \notin user_tcodes.columns THEN key_error_report(user_id)
      ELSE IF user_data_df = <<>>
      THEN [user_id |-> user_id, user_name |-> <<>>, conflicts |-> <<>>,
            functions |-> <<>>, tcodes |-> <<>>, roles |-> <<>>,
            conflict_count |-> 0, error |-> "No T-codes found for user"]
      ELSE user_report(user_id, user_data_df, function_map, risk_pairs)

analyze_user_conflicts(user_id_arg, user_tcodes, function_map, risk_pairs) ==
  LET user_id == str_strip(str(user_id_arg))
      user_data_df == SelectSeq(user_tcodes.rows, LAMBDA r : r.user_id = user_id)
  IN  IF "user_id" \notin user_tcodes.columns THEN key_error_report(user_id)
      ELSE IF user_data_df = <<>>
      THEN [user_id |-> user_id, conflicts |-> <<>>, functions |-> <<>>, tcodes |-> <<>>,
            roles |-> <<>>, conflict_count |-> 0, error |-> "User not found"]
      ELSE user_report(user_id, user_data_df, function_map, risk_pairs)

(***************************************************************************)
(* create_user_summary: one row per user id of user_tcodes_df.             *)
(***************************************************************************)
\* risk_status with "if conflict_count > 1"
risk_status_above_one(conflict_count) == IF conflict_count > 1 THEN "HIGH RISK" ELSE "SAFE"

\* "HIGH RISK" if conflict_count > 0 else "SAFE"
risk_status(conflict_count) == IF conflict_count > 0 THEN "HIGH RISK" ELSE "SAFE"

create_user_summary(conflicts_df, user_tcodes_df) ==
  IF "user_id" \notin user_tcodes_df.columns THEN <<>>     \* KeyError: pd.DataFrame()
  ELSE
  LET ids == unique(column(user_tcodes_df.rows, "user_id"))
  IN  [k \in 1..Len(ids) |->
        LET user_data == SelectSeq(user_tcodes_df.rows, LAMBDA r : r.user_id = ids[k])
            roles == unique(column(user_data, "role"))
            tcodes == unique(column(user_data, "tcode"))
            conflict_count ==
              IF conflicts_df # <<>>
              THEN Len(SelectSeq(conflicts_df, LAMBDA c : c.user_id = ids[k]))
              ELSE 0
        IN  [user_id |-> ids[k],
             user_name |-> user_data[1].user_name,
             roles |-> str_join(S_comma_space, roles),
             total_roles |-> Len(roles),
             total_tcodes |-> Len(tcodes),
             conflict_count |-> conflict_count,
             risk_status |-> risk_status(conflict_count)]]

(***************************************************************************)
(* The uploads the model draws from.                                       *)
(***************************************************************************)
U1 == <<"U", "1">>
U2 == <<"U", "2">>
GHOST == <<"G", "H", "O", "S", "T">>
Ann == <<"A", "n", "n">>
Bob == <<"B", "o", "b">>
R1 == <<"R", "1">>
R2 == <<"R", "2">>
R3 == <<"R", "3">>
T1 == <<"T", "1">>
T2 == <<"T", "2">>
F1 == <<"F", "1">>
F2 == <<"F", "2">>
F3 == <<"F", "3">>
X1 == <<"X", "1">>
X2 == <<"X", "2">>

\* the sequences over S of length at most n
SeqsUpTo(S, n) == UNION {[1..k -> S] : k \in 0..n}

\* the subsequences of a sequence (rows kept in order)
RECURSIVE Pick(_, _, _)
Pick(s, I, n) ==
  IF n = 0 THEN <<>>
  ELSE IF n \in I THEN Append(Pick(s, I, n - 1), s[n])
  ELSE Pick(s, I, n - 1)

SubSequences(s) == {Pick(s, I, Len(s)) : I \in SUBSET (1..Len(s))}

UserColumns ==
  << <<"U", "s", "e", "r", " ", "I", "D">>,
     <<"U", "s", "e", "r", " ", "N", "a", "m", "e">>,
     <<"R", "o", "l", "e", " ", "1">>,
     <<"R", "o", "l", "e", " ", "2">> >>

UserRows ==
  << <<U1, Ann, R1, R2>>,
     << <<" ", "U", "2", " ">>, Bob, <<"r", "1">>, NaN >> >>

UserFile(rows) == [columns |-> UserColumns, rows |-> rows]

UserFiles == {UserFile(rows) : rows \in SubSequences(UserRows)}

RoleColumns == << <<"R", "o", "l", "e">>, <<"T", "C", "o", "d", "e">> >>

RoleRows ==
  << <<R1, T1>>,
     <<R2, <<"t", "1", ",", " ", "T", "2">> >> >>

RolesFile(rows) == [sheets |-> << [columns |-> RoleColumns, rows |-> rows] >>]

RolesFiles == {RolesFile(rows) : rows \in SubSequences(RoleRows)}

\* role sheets in which a row may be given twice and R2 may hold T2 alone
RoleRowR2T2 == <<R2, T2>>

LoadRolesFiles ==
  {RolesFile(rows) : rows \in SeqsUpTo(Range(RoleRows) \cup {RoleRowR2T2}, MaxRoleRows)}

FunctionColumns ==
  << <<"F", "u", "n", "c", "t", "i", "o", "n", " ", "I", "D">>,
     <<"A", "c", "t", "i", "o", "n", " ", "T", "-", "C", "o", "d", "e", "s">> >>

FunctionRows ==
  << <<F1, T1>>,
     <<F2, T2>>,
     << <<"f", "3", " ">>, <<"T", "1", ",", "T", "2">> >> >>

\* the risk sheet names its first column "Access Risk ID" or "Risk"
AccessRiskID == <<"A", "c", "c", "e", "s", "s", " ", "R", "i", "s", "k", " ", "I", "D">>
Risk == <<"R", "i", "s", "k">>
RiskHeaders == {AccessRiskID, Risk}

RiskColumns(risk_header) ==
  << risk_header,
     <<"C", "o", "n", "f", "l", "i", "c", "t", "i", "n", "g", " ",
       "F", "u", "n", "c", "t", "i", "o", "n", " ", "1">>,
     <<"C", "o", "n", "f", "l", "i", "c", "t", "i", "n", "g", " ",
       "F", "u", "n", "c", "t", "i", "o", "n", " ", "2">>,
     <<"C", "o", "n", "f", "l", "i", "c", "t", "i", "n", "g", " ",
       "F", "u", "n", "c", "t", "i", "o", "n", " ", "3">> >>

RiskRowPair == <<X1, F1, F2, NaN>>
RiskRowDescribed == <<X2, <<"F", "2", " ", "-", " ", "P", "a", "y">>, <<"f", "1">>, F2>>
RiskRowThree == <<X1, F3, F1, F2>>
RiskRowSingle == <<X2, F3, NaN, F3>>

RiskRows == {RiskRowPair, RiskRowDescribed, RiskRowThree, RiskRowSingle}

RiskFile(function_rows, risk_header, risk_rows) ==
  [function_sheet |-> [columns |-> FunctionColumns, rows |-> function_rows],
   risk_sheet |-> [columns |-> RiskColumns(risk_header), rows |-> risk_rows]]

\* the function sheets: no row, the two single-code functions, all three
FunctionSheets == {SubSeq(FunctionRows, 1, n) : n \in {0, 2, Len(FunctionRows)}}

RiskFiles ==
  {RiskFile(f, h, r) : f \in FunctionSheets, h \in RiskHeaders,
                       r \in SeqsUpTo(RiskRows, MaxRiskRows)}

\* the files a session with several uploads draws from
SessionUserFiles == {UserFile(UserRows), UserFile(SubSeq(UserRows, 2, 2))}

SessionRolesFiles == {RolesFile(RoleRows), RolesFile(<<>>)}

\* risk files that lack a required column: the function id, the action
\* codes, the conflicting functions
RiskFileNoFunctionID ==
  [function_sheet |-> [columns |-> << <<"F", "u", "n", "c", "t", "i", "o", "n">>, FunctionColumns[2] >>, rows |-> FunctionRows],
   risk_sheet |-> [columns |-> RiskColumns(AccessRiskID), rows |-> <<RiskRowPair>>]]

RiskFileNoActionCodes ==
  [function_sheet |-> [columns |-> << FunctionColumns[1], <<"T", "-", "C", "o", "d", "e", "s">> >>, rows |-> FunctionRows],
   risk_sheet |-> [columns |-> RiskColumns(AccessRiskID), rows |-> <<RiskRowPair>>]]

RiskFileNoConflictingFunction ==
  [function_sheet |-> [columns |-> FunctionColumns, rows |-> FunctionRows],
   risk_sheet |-> [columns |-> << AccessRiskID, <<"F", "u", "n", "c", "t", "i", "o", "n", " ", "1">>, <<"F", "u", "n", "c", "t", "i", "o", "n", " ", "2">>, <<"F", "u", "n", "c", "t", "i", "o", "n", " ", "3">> >>,
                   rows |-> <<RiskRowPair>>]]

MismatchedRiskFiles ==
  {RiskFileNoFunctionID, RiskFileNoActionCodes, RiskFileNoConflictingFunction}

SessionRiskFiles ==
  { RiskFile(FunctionRows, AccessRiskID, <<RiskRowPair>>),
    RiskFile(FunctionRows, Risk, <<RiskRowPair>>),
    RiskFile(FunctionRows, AccessRiskID, <<RiskRowThree>>),
    RiskFile(FunctionRows, AccessRiskID, <<RiskRowSingle>>) }
    \cup MismatchedRiskFiles

\* what may be typed or selected as the user to analyze
UserInputs == {<<>>, U1, U2, <<"U", "1", " ">>, GHOST}

(***************************************************************************)
(* The session.                                                            *)
(***************************************************************************)
VARIABLES
  user_file,        \* the three st.file_uploader widgets: None or the file
  roles_file,
  risk_file,
  processed_data,   \* st.session_state.processed_data: Empty or the six tables
  bulk_conflicts,   \* st.session_state['bulk_conflicts']: None (no such key) or [df |-> rows]
  final_user,       \* the user id typed or selected in the first tab
  user_analysis,    \* the report the run rendered: None when it rendered none
  user_summary_df,  \* the summary the run rendered: None or [df |-> rows]
  load_run          \* the load run seen step by step: its position and its locals

files == <<user_file, roles_file, risk_file>>
vars == <<user_file, roles_file, risk_file, processed_data, bulk_conflicts,
          final_user, user_analysis, user_summary_df, load_run>>

\* no load run has been started
Idle == [pc |-> "idle"]

\* the empty dict st.session_state.processed_data starts as
Empty == [empty |-> TRUE]
is_empty(d) == "empty" \in DOMAIN d

(***************************************************************************)
(* The "Process Files & Load Data" block of main: the five load steps,     *)
(* each followed by its st.stop() test.  The result is the dict stored in  *)
(* the session, or None when the run stopped.                              *)
(***************************************************************************)
process_files(user_file_arg, roles_file_arg, risk_file_arg) ==
  LET user_data == load_user_data_from_upload(user_file_arg)
  IN  IF is_none(user_data) THEN None
  ELSE
  LET role_tcodes == load_role_tcode_mapping_from_upload(roles_file_arg)
  IN  IF is_none(role_tcodes) THEN None
      ELSE IF role_tcodes.df = <<>> THEN None
  ELSE
  LET user_roles == load_user_role_assignments_from_upload(user_data)
  IN  IF user_roles = <<>> THEN None
  ELSE
  LET user_tcodes == create_user_tcode_mapping(user_roles, role_tcodes.df)
  IN  IF empty(user_tcodes) THEN None
  ELSE
  LET risk == load_risk_data_from_upload(risk_file_arg)
  IN  IF is_none(risk) THEN None
  ELSE [user_data |-> user_data,
        user_roles |-> user_roles,
        role_tcodes |-> role_tcodes.df,
        user_tcodes |-> user_tcodes,
        function_map |-> risk.function_map,
        risk_pairs |-> risk.risk_pairs]

\* the first tab: the report of the user typed or selected, if any
render_user_analysis(data, user) ==
  IF ~is_empty(data) /\ user # <<>>
  THEN analyze_user_conflicts(user, data.user_tcodes, data.function_map, data.risk_pairs)
  ELSE None

\* the second tab: the summary shown with the stored bulk result
render_user_summary(data, bulk) ==
  IF ~is_empty(data) /\ ~is_none(bulk)
  THEN [df |-> create_user_summary(bulk.df, data.user_tcodes)]
  ELSE None

\* a run of main in which no button is pressed renders both tabs
Render ==
  /\ user_analysis' = render_user_analysis(processed_data', final_user')
  /\ user_summary_df' = render_user_summary(processed_data', bulk_conflicts')

Init ==
  /\ user_file = None
  /\ roles_file = None
  /\ risk_file = None
  /\ processed_data = Empty
  /\ bulk_conflicts = None
  /\ final_user = <<>>
  /\ user_analysis = None
  /\ user_summary_df = None
  /\ load_run = Idle

\* A file is put into one of the three uploaders.
UploadUserFile ==
  /\ \E file \in SessionUserFiles : user_file' = file
  /\ UNCHANGED <<load_run, roles_file, risk_file, processed_data, bulk_conflicts, final_user>>
  /\ Render

UploadRolesFile ==
  /\ \E file \in SessionRolesFiles : roles_file' = file
  /\ UNCHANGED <<load_run, user_file, risk_file, processed_data, bulk_conflicts, final_user>>
  /\ Render

UploadRiskFile ==
  /\ \E file \in SessionRiskFiles : risk_file' = file
  /\ UNCHANGED <<load_run, user_file, roles_file, processed_data, bulk_conflicts, final_user>>
  /\ Render

\* ProcessFiles with "st.session_state.processed_data['user_data'] = user_data"
\* right after the first load step instead of one assignment at the end
ProcessFiles_storing_user_data_first ==
  /\ ~is_none(user_file) /\ ~is_none(roles_file) /\ ~is_none(risk_file)
  /\ LET data == process_files(user_file, roles_file, risk_file)
         user_data == load_user_data_from_upload(user_file)
     IN  IF is_none(data)
         THEN /\ user_analysis' = None
              /\ user_summary_df' = None
              /\ processed_data' =
                   IF is_none(user_data) \/ is_empty(processed_data) THEN processed_data
                   ELSE [processed_data EXCEPT !.user_data = user_data]
         ELSE /\ processed_data' = data
              /\ user_analysis' = render_user_analysis(data, final_user)
              /\ user_summary_df' = render_user_summary(data, bulk_conflicts)
  /\ UNCHANGED <<load_run, user_file, roles_file, risk_file, bulk_conflicts, final_user>>

\* The button "Process Files & Load Data", shown when all three files are
\* uploaded.
ProcessFiles ==
  /\ ~is_none(user_file) /\ ~is_none(roles_file) /\ ~is_none(risk_file)
  /\ LET data == process_files(user_file, roles_file, risk_file)
     IN  IF is_none(data)
         THEN \* st.stop(): the run renders nothing more
              /\ user_analysis' = None
              /\ user_summary_df' = None
              /\ UNCHANGED processed_data
         ELSE /\ processed_data' = data
              /\ user_analysis' = render_user_analysis(data, final_user)
              /\ user_summary_df' = render_user_summary(data, bulk_conflicts)
  /\ UNCHANGED <<load_run, user_file, roles_file, risk_file, bulk_conflicts, final_user>>

\* A user id is typed or selected; the run analyzes it when data is held.
SelectUser ==
  /\ \E user \in UserInputs : final_user' = str_strip(user)
  /\ UNCHANGED <<load_run, user_file, roles_file, risk_file, processed_data, bulk_conflicts>>
  /\ Render

\* AnalyzeAllUsers with the new rows appended to the stored result
\* (pd.concat of the stored and the new conflicts_df)
AnalyzeAllUsers_appending ==
  /\ ~is_empty(processed_data)
  /\ LET conflicts_df == analyze_conflicts(processed_data.user_tcodes,
                                          processed_data.function_map,
                                          processed_data.risk_pairs).df
     IN  bulk_conflicts' = IF is_none(bulk_conflicts) THEN [df |-> conflicts_df]
                           ELSE [df |-> bulk_conflicts.df \o conflicts_df]
  /\ UNCHANGED <<load_run, user_file, roles_file, risk_file, processed_data, final_user>>
  /\ Render

\* The button "Analyze All Users for Conflicts", shown when data is held.
AnalyzeAllUsers ==
  /\ ~is_empty(processed_data)
  /\ bulk_conflicts' = [df |-> analyze_conflicts(processed_data.user_tcodes,
                                                 processed_data.function_map,
                                                 processed_data.risk_pairs).df]
  /\ UNCHANGED <<load_run, user_file, roles_file, risk_file, processed_data, final_user>>
  /\ Render

Next ==
  \/ UploadUserFile
  \/ UploadRolesFile
  \/ UploadRiskFile
  \/ ProcessFiles
  \/ SelectUser
  \/ AnalyzeAllUsers

Spec == Init /\ [][Next]_vars

(***************************************************************************)
(* A session with one upload: the three files are in the uploaders from    *)
(* the start and are not replaced.                                         *)
(***************************************************************************)
InitUploaded ==
  /\ user_file \in UserFiles
  /\ roles_file \in RolesFiles
  /\ risk_file \in RiskFiles
  /\ processed_data = Empty
  /\ bulk_conflicts = None
  /\ final_user = <<>>
  /\ user_analysis = None
  /\ user_summary_df = None
  /\ load_run = Idle

NextUploaded == ProcessFiles \/ SelectUser \/ AnalyzeAllUsers

SpecUploaded == InitUploaded /\ [][NextUploaded]_vars

(***************************************************************************)
(* A session with one upload in which the role sheet varies: rows in any   *)
(* order, rows given twice.                                                *)
(***************************************************************************)
InitLoad ==
  /\ user_file = UserFile(UserRows)
  /\ roles_file \in LoadRolesFiles
  /\ risk_file \in SessionRiskFiles
  /\ processed_data = Empty
  /\ bulk_conflicts = None
  /\ final_user = <<>>
  /\ user_analysis = None
  /\ user_summary_df = None
  /\ load_run = Idle

SpecLoad == InitLoad /\ [][NextUploaded]_vars

(***************************************************************************)
(* The two queries as functions of their arguments: the tables are drawn   *)
(* from what the loaders build, among them the tables without rows that    *)
(* the load run of main never stores.                                      *)
(***************************************************************************)
EngineUserRoles ==
  {load_user_role_assignments_from_upload(load_user_data_from_upload(file)) :
     file \in UserFiles}

EngineRoleTcodes ==
  {load_role_tcode_mapping_from_upload(file).df : file \in RolesFiles}

EngineFunctionMap ==
  load_risk_data_from_upload(RiskFile(FunctionRows, AccessRiskID, <<RiskRowPair>>)).function_map

\* the catalogs of the session's risk files and the catalog with its
\* columns and no row
EngineRiskPairs ==
  {<<>>} \cup {load_risk_data_from_upload(file).risk_pairs :
                 file \in {f \in SessionRiskFiles : ~is_none(load_risk_data_from_upload(f))}}

InitEngine ==
  /\ user_file = None
  /\ roles_file = None
  /\ risk_file = None
  /\ \E user_roles \in EngineUserRoles, role_tcodes \in EngineRoleTcodes,
        risk_pairs \in EngineRiskPairs :
        processed_data = [user_data |-> load_user_data_from_upload(UserFile(UserRows)),
                          user_roles |-> user_roles,
                          role_tcodes |-> role_tcodes,
                          user_tcodes |-> create_user_tcode_mapping(user_roles, role_tcodes),
                          function_map |-> EngineFunctionMap,
                          risk_pairs |-> risk_pairs]
  /\ bulk_conflicts = None
  /\ final_user = <<>>
  /\ user_analysis = None
  /\ user_summary_df = None
  /\ load_run = Idle

\* analyze_user_conflicts is called with a user id
QueryUser ==
  /\ \E user \in UserInputs \ {<<>>} :
       /\ final_user' = user
       /\ user_analysis' = analyze_user_conflicts(user, processed_data.user_tcodes,
                                                  processed_data.function_map,
                                                  processed_data.risk_pairs)
  /\ UNCHANGED <<load_run, user_file, roles_file, risk_file, processed_data, bulk_conflicts,
                 user_summary_df>>

\* analyze_conflicts is called, and create_user_summary with its result
QueryAll ==
  /\ bulk_conflicts' = analyze_conflicts(processed_data.user_tcodes,
                                         processed_data.function_map,
                                         processed_data.risk_pairs)
  /\ user_summary_df' = [df |-> create_user_summary(bulk_conflicts'.df,
                                                    processed_data.user_tcodes)]
  /\ UNCHANGED <<load_run, user_file, roles_file, risk_file, processed_data, final_user,
                 user_analysis>>

NextEngine == QueryUser \/ QueryAll

SpecEngine == InitEngine /\ [][NextEngine]_vars

(***************************************************************************)
(* The load run of main step by step.  load_run holds the position of the  *)
(* run and the local variables assigned so far; a run ends "done" after    *)
(* the assignment of processed_data or "stopped" at the step that called   *)
(* st.stop().  Files are uploaded and queries are made between runs.       *)
(***************************************************************************)
RunOver == load_run.pc \in {"idle", "stopped", "done"}

\* st.stop() at a step: the run renders nothing more
StopRun(step, locals) ==
  /\ load_run' = [pc |-> "stopped", stopped_at |-> step] @@ locals @@ load_run
  /\ user_analysis' = None
  /\ user_summary_df' = None
  /\ UNCHANGED <<user_file, roles_file, risk_file, processed_data, bulk_conflicts, final_user>>

\* a step that assigns its locals and goes on to the next step
StepRun(next, locals) ==
  /\ load_run' = [pc |-> next] @@ locals @@ load_run
  /\ UNCHANGED <<user_file, roles_file, risk_file, processed_data, bulk_conflicts,
                 final_user, user_analysis, user_summary_df>>

\* the button is pressed with the three files uploaded
StartLoadRun ==
  /\ RunOver
  /\ ~is_none(user_file) /\ ~is_none(roles_file) /\ ~is_none(risk_file)
  /\ load_run' = [pc |-> "load_user_data"]
  /\ UNCHANGED <<user_file, roles_file, risk_file, processed_data, bulk_conflicts,
                 final_user, user_analysis, user_summary_df>>

\* LoadUserData with user_data stored in the session as soon as it is loaded
LoadUserData_storing_user_data ==
  /\ load_run.pc = "load_user_data"
  /\ LET user_data == load_user_data_from_upload(user_file)
     IN  /\ load_run' = [pc |-> "load_role_tcodes", user_data |-> user_data]
         /\ processed_data' = [user_data |-> user_data]
  /\ UNCHANGED <<user_file, roles_file, risk_file, bulk_conflicts,
                 final_user, user_analysis, user_summary_df>>

LoadUserData ==
  /\ load_run.pc = "load_user_data"
  /\ LET user_data == load_user_data_from_upload(user_file)
     IN  IF is_none(user_data)
         THEN StopRun("load_user_data", [user_data |-> user_data])
         ELSE StepRun("load_role_tcodes", [user_data |-> user_data])

LoadRoleMapping ==
  /\ load_run.pc = "load_role_tcodes"
  /\ LET role_tcodes == load_role_tcode_mapping_from_upload(roles_file)
     IN  IF is_none(role_tcodes) \/ role_tcodes.df = <<>>
         THEN StopRun("load_role_tcodes", [role_tcodes |-> role_tcodes])
         ELSE StepRun("load_user_roles", [role_tcodes |-> role_tcodes])

ExtractUserRoles ==
  /\ load_run.pc = "load_user_roles"
  /\ LET user_roles == load_user_role_assignments_from_upload(load_run.user_data)
     IN  IF user_roles = <<>>
         THEN StopRun("load_user_roles", [user_roles |-> user_roles])
         ELSE StepRun("create_user_tcodes", [user_roles |-> user_roles])

CreateUserTcodeMapping ==
  /\ load_run.pc = "create_user_tcodes"
  /\ LET user_tcodes == create_user_tcode_mapping(load_run.user_roles, load_run.role_tcodes.df)
     IN  IF empty(user_tcodes)
         THEN StopRun("create_user_tcodes", [user_tcodes |-> user_tcodes])
         ELSE StepRun("load_risk_data", [user_tcodes |-> user_tcodes])

LoadRiskData ==
  /\ load_run.pc = "load_risk_data"
  /\ LET risk == load_risk_data_from_upload(risk_file)
     IN  IF is_none(risk)
         THEN StopRun("load_risk_data", [function_map |-> None, risk_pairs |-> None])
         ELSE StepRun("store", [function_map |-> risk.function_map,
                                risk_pairs |-> risk.risk_pairs])

\* the assignment of st.session_state.processed_data, and the rest of the
\* run, which renders the analysis interface
StoreProcessedData ==
  /\ load_run.pc = "store"
  /\ processed_data' = [user_data |-> load_run.user_data,
                        user_roles |-> load_run.user_roles,
                        role_tcodes |-> load_run.role_tcodes.df,
                        user_tcodes |-> load_run.user_tcodes,
                        function_map |-> load_run.function_map,
                        risk_pairs |-> load_run.risk_pairs]
  /\ load_run' = [load_run EXCEPT !.pc = "done"]
  /\ UNCHANGED <<user_file, roles_file, risk_file, bulk_conflicts, final_user>>
  /\ Render

NextRun ==
  \/ RunOver /\ UploadUserFile
  \/ RunOver /\ UploadRolesFile
  \/ RunOver /\ UploadRiskFile
  \/ RunOver /\ SelectUser
  \/ RunOver /\ AnalyzeAllUsers
  \/ StartLoadRun
  \/ LoadUserData
  \/ LoadRoleMapping
  \/ ExtractUserRoles
  \/ CreateUserTcodeMapping
  \/ LoadRiskData
  \/ StoreProcessedData

SpecRun == Init /\ [][NextRun]_vars

(***************************************************************************)
(* Notions the claims are stated with.                                     *)
(***************************************************************************)
Loaded == ~is_empty(processed_data)

\* the users of the access graph: the ids that have at least one role
GraphUsers == {processed_data.user_roles[i].user_id : i \in 1..Len(processed_data.user_roles)}

\* the roles assigned to a user
RolesOf(u) ==
  {processed_data.user_roles[i].role :
     i \in {j \in 1..Len(processed_data.user_roles) : processed_data.user_roles[j].user_id = u}}

\* the action codes of a user: those of the user's roles
ActionCodesOf(u) ==
  {processed_data.role_tcodes[i].tcode :
     i \in {j \in 1..Len(processed_data.role_tcodes) :
              processed_data.role_tcodes[j].role \in RolesOf(u)}}

\* the effective function set of a user: the functions that hold one of
\* the user's action codes
EffectiveFunctions(u) ==
  {processed_data.function_map[i].function_id :
     i \in {j \in 1..Len(processed_data.function_map) :
              processed_data.function_map[j].tcode \in ActionCodesOf(u)}}

\* the unordered function pair of a catalog entry or of a conflict
Unordered(e) == {e.function_1, e.function_2}

\* the bulk rows of one user
BulkRowsOf(df, u) == {df[i] : i \in {j \in 1..Len(df) : df[j].user_id = u}}

\* a report of the single-user query that carries no error condition
IsReport(r) == ~is_none(r) /\ "error" \notin DOMAIN r

\* C1 (as claimed).  The unordered function pairs of the single-user report
\* of a user are the function pairs of that user's rows of the bulk result.
SingleBulkAgreement ==
  (~is_none(user_analysis) /\ ~is_none(bulk_conflicts))
    => {Unordered(user_analysis.conflicts[i]) : i \in 1..Len(user_analysis.conflicts)}
         = {Unordered(r) : r \in BulkRowsOf(bulk_conflicts.df, user_analysis.user_id)}

\* C2.  The bulk result has a row for a user and a catalog entry if and
\* only if both functions of the entry are in the user's effective function
\* set, and it has no other row.
BulkSoundAndComplete ==
  (Loaded /\ ~is_none(bulk_conflicts)) =>
    LET df == bulk_conflicts.df
        catalog == processed_data.risk_pairs
        RowFor(u, e) == \E r \in BulkRowsOf(df, u) :
                          /\ r.risk_id = e.risk_id
                          /\ r.function_1 = e.function_1
                          /\ r.function_2 = e.function_2
    IN  /\ \A u \in GraphUsers \cup {GHOST} : \A k \in 1..Len(catalog) :
             RowFor(u, catalog[k])
               <=> /\ catalog[k].function_1 \in EffectiveFunctions(u)
                   /\ catalog[k].function_2 \in EffectiveFunctions(u)
        /\ \A i \in 1..Len(df) :
             /\ df[i].user_id \in GraphUsers
             /\ \E k \in 1..Len(catalog) :
                  /\ df[i].risk_id = catalog[k].risk_id
                  /\ df[i].function_1 = catalog[k].function_1
                  /\ df[i].function_2 = catalog[k].function_2

\* C2 witness: a bulk result that reports one user for a catalog entry and
\* does not report another user of the graph for it.
BulkSoundAndCompleteWitness ==
  /\ Loaded /\ ~is_none(bulk_conflicts)
  /\ \E i \in 1..Len(bulk_conflicts.df) : \E u \in GraphUsers :
       /\ u # bulk_conflicts.df[i].user_id
       /\ EffectiveFunctions(u) # {}
       /\ bulk_conflicts.df[i].function_2 \notin EffectiveFunctions(u)

\* C3 (as claimed).  No two rows of the bulk result share the user, the risk
\* id and the function pair.
BulkDeduplicated ==
  ~is_none(bulk_conflicts) =>
    \A i, j \in 1..Len(bulk_conflicts.df) :
      (/\ bulk_conflicts.df[i].user_id = bulk_conflicts.df[j].user_id
       /\ bulk_conflicts.df[i].risk_id = bulk_conflicts.df[j].risk_id
       /\ bulk_conflicts.df[i].function_1 = bulk_conflicts.df[j].function_1
       /\ bulk_conflicts.df[i].function_2 = bulk_conflicts.df[j].function_2) => i = j

\* C4 (as claimed).  In a single-user report no function pair appears twice,
\* each conflict carries the risk id of the first catalog entry of its
\* function pair, and conflict_count is the number of function pairs of the
\* catalog of which the user holds both functions.
SingleUserFirstRisk ==
  (Loaded /\ IsReport(user_analysis)) =>
    LET conflicts == user_analysis.conflicts
        catalog == processed_data.risk_pairs
        held == EffectiveFunctions(user_analysis.user_id)
        First(pair) == CHOOSE k \in 1..Len(catalog) :
                         /\ Unordered(catalog[k]) = pair
                         /\ \A m \in 1..(k - 1) : Unordered(catalog[m]) # pair
    IN  /\ \A i, j \in 1..Len(conflicts) :
             Unordered(conflicts[i]) = Unordered(conflicts[j]) => i = j
        /\ \A i \in 1..Len(conflicts) :
             /\ \E k \in 1..Len(catalog) : Unordered(catalog[k]) = Unordered(conflicts[i])
             /\ conflicts[i].risk_id = catalog[First(Unordered(conflicts[i]))].risk_id
        /\ user_analysis.conflict_count
             = Cardinality({Unordered(catalog[k]) :
                              k \in {m \in 1..Len(catalog) : Unordered(catalog[m]) \subseteq held}})

\* C5 (as claimed).  The report of a user who has roles, none of which the
\* role mapping knows, carries the "no action codes" condition and the
\* user's roles.
NoActionCodesReported ==
  (/\ Loaded /\ ~is_none(user_analysis)
   /\ final_user \in GraphUsers /\ ActionCodesOf(final_user) = {})
    => /\ "error" \in DOMAIN user_analysis
       /\ user_analysis.error = "No T-codes found for user"
       /\ Range(user_analysis.roles) = RolesOf(final_user)

\* C6.  The report of an id that has no role in the held graph is the
\* "user not found" report: no conflicts, no roles, no functions, no action
\* codes, and no other error.
GhostNotFound ==
  (Loaded /\ ~is_none(user_analysis) /\ final_user \notin GraphUsers)
    => user_analysis = [user_id |-> final_user, conflicts |-> <<>>, functions |-> <<>>,
                        tcodes |-> <<>>, roles |-> <<>>, conflict_count |-> 0,
                        error |-> "User not found"]

\* C6 witness: the report of GHOST on a loaded graph.
GhostNotFoundWitness ==
  Loaded /\ ~is_none(user_analysis) /\ final_user = GHOST /\ GraphUsers # {}

\* the risk sheet of the uploaded risk file, as the builder reads it
UploadedRiskSheet == normalize_columns(risk_file.risk_sheet)

\* the distinct functions of one risk row: the values of its cells in the
\* conflicting-function columns that are not missing
RowFunctions(sheet, row) ==
  LET cols == conflict_columns(sheet)
  IN  {conflicting_function(row[cols[k]]) : k \in {j \in 1..Len(cols) : notna(row[cols[j]])}}

\* the entries of the held catalog that carry a risk id and a function pair
CatalogEntries(risk_id, pair) ==
  {k \in 1..Len(processed_data.risk_pairs) :
     /\ processed_data.risk_pairs[k].risk_id = risk_id
     /\ Unordered(processed_data.risk_pairs[k]) = pair}

\* C7.  A risk row with k distinct functions gives k(k-1)/2 pairs, one for
\* every unordered pair of its functions and no other, and each of them is
\* in the built catalog exactly once; a row with fewer than two distinct
\* functions gives no pair.
CatalogPairsPerRow ==
  (Loaded /\ ~is_none(risk_file)) =>
    \A n \in 1..Len(UploadedRiskSheet.rows) :
      LET row == UploadedRiskSheet.rows[n]
          fs == RowFunctions(UploadedRiskSheet, row)
          k == Cardinality(fs)
          pairs == risk_row_pairs(UploadedRiskSheet, conflict_columns(UploadedRiskSheet), row)
      IN  /\ Len(pairs) = (k * (k - 1)) \div 2
          /\ {Unordered(pairs[i]) : i \in 1..Len(pairs)}
               = {p \in {{a, b} : a, b \in fs} : Cardinality(p) = 2}
          /\ k < 2 => pairs = <<>>
          /\ \A i \in 1..Len(pairs) :
               Cardinality(CatalogEntries(pairs[i].risk_id, Unordered(pairs[i]))) = 1

\* C7 witness: a catalog built from a row of three distinct functions and a
\* row that names one function only.
CatalogPairsPerRowWitness ==
  /\ Loaded /\ ~is_none(risk_file)
  /\ \E n, m \in 1..Len(UploadedRiskSheet.rows) :
       /\ Cardinality(RowFunctions(UploadedRiskSheet, UploadedRiskSheet.rows[n])) = 3
       /\ Cardinality(RowFunctions(UploadedRiskSheet, UploadedRiskSheet.rows[m])) = 1
  /\ Len(processed_data.risk_pairs) = 3

\* C8.  Every entry of the built catalog has function_1 before function_2 in
\* the order of the strings, hence two different functions, and no two
\* entries share the risk id and the unordered function pair.
CatalogCanonical ==
  Loaded =>
    LET catalog == processed_data.risk_pairs
    IN  /\ \A k \in 1..Len(catalog) :
             /\ str_lt(catalog[k].function_1, catalog[k].function_2)
             /\ catalog[k].function_1 # catalog[k].function_2
        /\ \A k, m \in 1..Len(catalog) :
             (/\ catalog[k].risk_id = catalog[m].risk_id
              /\ Unordered(catalog[k]) = Unordered(catalog[m])) => k = m

\* C8 witness: a catalog built from a sheet that gives the same row twice,
\* the row listing one function twice.
CatalogCanonicalWitness ==
  /\ Loaded /\ ~is_none(risk_file)
  /\ Len(risk_file.risk_sheet.rows) = 2
  /\ risk_file.risk_sheet.rows[1] = RiskRowDescribed
  /\ risk_file.risk_sheet.rows[2] = RiskRowDescribed
  /\ Len(processed_data.risk_pairs) = 1

\* the catalog with the functions of entry k stored the other way round
Swapped(catalog, k) ==
  [i \in 1..Len(catalog) |->
    IF i = k
    THEN [catalog[i] EXCEPT !.function_1 = catalog[i].function_2,
                            !.function_2 = catalog[i].function_1,
                            !.tcode1 = catalog[i].tcode2,
                            !.tcode2 = catalog[i].tcode1]
    ELSE catalog[i]]

\* what a list of conflicts reports: unordered function pair and risk id
Reported(conflicts) ==
  {<<Unordered(conflicts[i]), conflicts[i].risk_id>> : i \in 1..Len(conflicts)}

\* what the bulk result reports: user, unordered function pair and risk id
ReportedBulk(df) ==
  {<<df[i].user_id, Unordered(df[i]), df[i].risk_id>> : i \in 1..Len(df)}

\* C9.  Storing the two functions of any one catalog entry the other way
\* round changes neither the function pairs and risk ids of the single-user
\* report nor the users, function pairs and risk ids of the bulk result.
SwapInvariant ==
  Loaded =>
    \A k \in 1..Len(processed_data.risk_pairs) :
      LET swapped == Swapped(processed_data.risk_pairs, k)
      IN  /\ ~is_none(user_analysis) =>
               Reported(analyze_user_conflicts(final_user, processed_data.user_tcodes,
                                               processed_data.function_map, swapped).conflicts)
                 = Reported(user_analysis.conflicts)
          /\ ~is_none(bulk_conflicts) =>
               ReportedBulk(analyze_conflicts(processed_data.user_tcodes,
                                              processed_data.function_map, swapped).df)
                 = ReportedBulk(bulk_conflicts.df)

\* C9 witness: a single-user report with a conflict and a bulk result with
\* a row, on a catalog that lists one function pair under two risk ids.
SwapInvariantWitness ==
  /\ Loaded /\ IsReport(user_analysis) /\ ~is_none(bulk_conflicts)
  /\ user_analysis.conflicts # <<>>
  /\ bulk_conflicts.df # <<>>
  /\ \E k, m \in 1..Len(processed_data.risk_pairs) :
       /\ k # m
       /\ Unordered(processed_data.risk_pairs[k]) = Unordered(processed_data.risk_pairs[m])
       /\ Unordered(processed_data.risk_pairs[k]) \subseteq EffectiveFunctions(final_user)

\* C10 (as claimed).  The conflict_count of every row of the summary is the
\* number of distinct (risk_id, function_1, function_2) of the user's rows
\* of the bulk result.
SummaryCountsTriples ==
  (Loaded /\ ~is_none(user_summary_df) /\ ~is_none(bulk_conflicts)) =>
    \A i \in 1..Len(user_summary_df.df) :
      user_summary_df.df[i].conflict_count
        = Cardinality({<<r.risk_id, r.function_1, r.function_2>> :
                         r \in BulkRowsOf(bulk_conflicts.df, user_summary_df.df[i].user_id)})

\* the rows of the summary shown for one user
SummaryRowsOf(u) ==
  {i \in 1..Len(user_summary_df.df) : user_summary_df.df[i].user_id = u}

\* C11 (as claimed).  The summary has one row for every user of the access
\* graph and for no other id, and the row's role count is the number of
\* distinct roles assigned to the user.
SummaryRowPerGraphUser ==
  (Loaded /\ ~is_none(user_summary_df)) =>
    /\ \A u \in GraphUsers :
         /\ Cardinality(SummaryRowsOf(u)) = 1
         /\ \A i \in SummaryRowsOf(u) :
              user_summary_df.df[i].total_roles = Cardinality(RolesOf(u))
    /\ \A i \in 1..Len(user_summary_df.df) : user_summary_df.df[i].user_id \in GraphUsers

\* the users that hold both functions of some catalog entry
ConflictedUsers ==
  {u \in GraphUsers : \E k \in 1..Len(processed_data.risk_pairs) :
     Unordered(processed_data.risk_pairs[k]) \subseteq EffectiveFunctions(u)}

\* C12.  Every summary row is HIGH RISK when its conflict_count is above 0
\* and SAFE when it is 0, and the row of a user who holds no catalog pair
\* has conflict_count 0 and is SAFE.
RiskStatusIffConflicts ==
  (Loaded /\ ~is_none(user_summary_df)) =>
    \A i \in 1..Len(user_summary_df.df) :
      LET row == user_summary_df.df[i]
      IN  /\ row.risk_status \in {"HIGH RISK", "SAFE"}
          /\ row.risk_status = "HIGH RISK" <=> row.conflict_count > 0
          /\ row.user_id \notin ConflictedUsers
               => row.conflict_count = 0 /\ row.risk_status = "SAFE"

\* C12 witness: a summary with a HIGH RISK row that counts conflicts and a
\* SAFE row of a user with one role that reaches a function.
RiskStatusIffConflictsWitness ==
  /\ Loaded /\ ~is_none(user_summary_df)
  /\ \E i, j \in 1..Len(user_summary_df.df) :
       /\ user_summary_df.df[i].conflict_count > 0
       /\ user_summary_df.df[i].risk_status = "HIGH RISK"
       /\ user_summary_df.df[j].total_roles = 1
       /\ EffectiveFunctions(user_summary_df.df[j].user_id) # {}
       /\ user_summary_df.df[j].conflict_count = 0
       /\ user_summary_df.df[j].risk_status = "SAFE"

\* the action codes mapped to a function
CodesOf(f) ==
  {processed_data.function_map[j].tcode :
     j \in {m \in 1..Len(processed_data.function_map) :
              processed_data.function_map[m].function_id = f}}

\* the roles of a user that grant a function: the role has an action code
\* that is mapped to the function
GrantingRoles(u, f) ==
  {r \in RolesOf(u) : \E i \in 1..Len(processed_data.role_tcodes) :
     /\ processed_data.role_tcodes[i].role = r
     /\ processed_data.role_tcodes[i].tcode \in CodesOf(f)}

\* the action codes of a user that are mapped to a function
GrantingCodes(u, f) == ActionCodesOf(u) \cap CodesOf(f)

\* the names a provenance field of a conflict lists
Listed(field) == Range(str_split(field, S_comma_space))

\* C13.  In every conflict of a single-user report role_1 and role_2 list
\* exactly the user's roles that grant function_1 and function_2, in sorted
\* order, and tcode_1 and tcode_2 exactly the user's action codes mapped to
\* them.
ConflictProvenance ==
  (Loaded /\ IsReport(user_analysis)) =>
    \A i \in 1..Len(user_analysis.conflicts) :
      LET c == user_analysis.conflicts[i]
          u == user_analysis.user_id
      IN  /\ Listed(c.role_1) = GrantingRoles(u, c.function_1)
          /\ Listed(c.role_2) = GrantingRoles(u, c.function_2)
          /\ Listed(c.tcode_1) = GrantingCodes(u, c.function_1)
          /\ Listed(c.tcode_2) = GrantingCodes(u, c.function_2)
          /\ c.role_1 = str_join(S_comma_space, sorted(GrantingRoles(u, c.function_1)))
          /\ c.role_2 = str_join(S_comma_space, sorted(GrantingRoles(u, c.function_2)))
          /\ c.tcode_1 = str_join(S_comma_space, sorted(GrantingCodes(u, c.function_1)))
          /\ c.tcode_2 = str_join(S_comma_space, sorted(GrantingCodes(u, c.function_2)))

\* C13 witness: U1 with R1 -> T1 -> F1 and R2 -> T2 -> F2 and the risk pair
\* (F1, F2): one conflict, role_1 = R1 and role_2 = R2.
ConflictProvenanceWitness ==
  /\ Loaded /\ IsReport(user_analysis) /\ final_user = U1
  /\ Range(processed_data.role_tcodes)
       = {[role |-> R1, tcode |-> T1], [role |-> R2, tcode |-> T2]}
  /\ user_analysis.conflict_count = 1
  /\ user_analysis.conflicts[1].function_1 = F1
  /\ user_analysis.conflicts[1].function_2 = F2
  /\ user_analysis.conflicts[1].role_1 = R1
  /\ user_analysis.conflicts[1].role_2 = R2

\* the rows of the uploaded role sheet that have a role and a code field
UploadedRoleRows ==
  SelectSeq(roles_file.sheets[1].rows, LAMBDA row : notna(row[1]) /\ notna(row[2]))

\* the (role, code) edges a role sheet row stands for: one for every
\* non-blank part of its comma-separated code field
RowEdges(row) ==
  LET parts == str_split(str_strip(row[2]), S_comma)
  IN  {[role |-> str_upper(str_strip(row[1])), tcode |-> str_upper(str_strip(parts[k]))] :
         k \in {j \in 1..Len(parts) : str_strip(parts[j]) # <<>>}}

\* C14.  The held role-to-action-code edges are exactly the edges of the
\* rows of the role sheet, one for every code of a row's field, and each
\* edge is held once.
RoleEdgesExpanded ==
  (Loaded /\ ~is_none(roles_file)) =>
    /\ Range(processed_data.role_tcodes)
         = UNION {RowEdges(UploadedRoleRows[n]) : n \in 1..Len(UploadedRoleRows)}
    /\ \A i, j \in 1..Len(processed_data.role_tcodes) :
         processed_data.role_tcodes[i] = processed_data.role_tcodes[j] => i = j

\* C14 witness: the row (R2, "t1, T2") given twice yields the two edges
\* (R2, T1) and (R2, T2), each once.
RoleEdgesExpandedWitness ==
  /\ Loaded /\ ~is_none(roles_file)
  /\ roles_file.sheets[1].rows = <<RoleRows[2], RoleRows[2]>>
  /\ processed_data.role_tcodes = <<[role |-> R2, tcode |-> T1], [role |-> R2, tcode |-> T2]>>

\* the "user not found" report of an id
NotFoundReport(user_id) ==
  [user_id |-> user_id, conflicts |-> <<>>, functions |-> <<>>, tcodes |-> <<>>,
   roles |-> <<>>, conflict_count |-> 0, error |-> "User not found"]

\* C15.  The bulk query on an access graph without rows or on a catalog
\* without rows returns no conflict row and does not run its exception
\* handler.
BulkOnEmptyInputs ==
  (/\ Loaded /\ ~is_none(bulk_conflicts)
   /\ empty(processed_data.user_tcodes) \/ processed_data.risk_pairs = <<>>)
    => bulk_conflicts.df = <<>> /\ ~bulk_conflicts.error

\* C15 witness: the bulk result of a catalog without rows on a graph in
\* which a user reaches two functions.
BulkOnEmptyInputsWitness ==
  /\ Loaded /\ ~is_none(bulk_conflicts)
  /\ processed_data.risk_pairs = <<>>
  /\ \E u \in GraphUsers : {F1, F2} \subseteq EffectiveFunctions(u)
  /\ bulk_conflicts.df = <<>>

\* C16 (as claimed).  The single-user query on an access graph without rows
\* returns the "user not found" report for every id.
ZeroEdgesNotFound ==
  (Loaded /\ ~is_none(user_analysis) /\ empty(processed_data.user_tcodes))
    => user_analysis = NotFoundReport(str_strip(final_user))

\* the tables the five load steps build from the uploaded files when no
\* step stops the run
UploadedDataset ==
  LET user_data == load_user_data_from_upload(user_file)
      role_tcodes == load_role_tcode_mapping_from_upload(roles_file).df
      user_roles == load_user_role_assignments_from_upload(user_data)
      risk == load_risk_data_from_upload(risk_file)
  IN  [user_data |-> user_data,
       user_roles |-> user_roles,
       role_tcodes |-> role_tcodes,
       user_tcodes |-> create_user_tcode_mapping(user_roles, role_tcodes),
       function_map |-> risk.function_map,
       risk_pairs |-> risk.risk_pairs]

\* the uploaded files can be read, the catalog can be built, and a step
\* yields no edge: no user-role row, no role-tcode row or no shared role
EmptyMappingUpload ==
  /\ ~is_none(user_file) /\ ~is_none(roles_file) /\ ~is_none(risk_file)
  /\ ~is_none(load_user_data_from_upload(user_file))
  /\ ~is_none(load_role_tcode_mapping_from_upload(roles_file))
  /\ ~is_none(load_risk_data_from_upload(risk_file))
  /\ empty(UploadedDataset.user_tcodes)

\* C17 (as claimed).  A load run in which a step yields no edge is not
\* aborted: the tables built from the upload, with the empty relation,
\* become the held dataset.
EmptyMappingNonFatal ==
  [][(ProcessFiles /\ EmptyMappingUpload) => processed_data' = UploadedDataset]_vars

\* a risk file that lacks the function id column, the action code column
\* or every conflicting function column
SchemaMismatch(file) ==
  LET function_columns == Range(normalize_columns(file.function_sheet).columns)
      risk_columns == Range(normalize_columns(file.risk_sheet).columns)
  IN  \/ function_columns \cap {S_function_id, S_functionid} = {}
      \/ ~\E c \in function_columns :
            str_contains(c, S_action) /\ (str_contains(c, S_tcode) \/ str_contains(c, S_t_codes))
      \/ ~\E c \in risk_columns : str_contains(c, S_conflicting_function)

\* C18.  A load run on a risk file with a schema mismatch leaves the held
\* tables as they were, and a load run changes the held tables only by
\* replacing all six with the tables of an upload without a mismatch.
FailedLoadKeepsState ==
  [][ProcessFiles =>
       /\ SchemaMismatch(risk_file) => processed_data' = processed_data
       /\ processed_data' # processed_data
            => ~SchemaMismatch(risk_file) /\ processed_data' = UploadedDataset]_vars

\* C18 witness: a dataset is held and a load run on files whose graph can
\* be built and whose risk file has a schema mismatch has just stopped (a
\* user is selected and no report is rendered).
FailedLoadKeepsStateWitness ==
  /\ Loaded /\ final_user # <<>> /\ is_none(user_analysis)
  /\ SchemaMismatch(risk_file)
  /\ ~empty(create_user_tcode_mapping(
              load_user_role_assignments_from_upload(load_user_data_from_upload(user_file)),
              load_role_tcode_mapping_from_upload(roles_file).df))
  /\ processed_data.user_data # load_user_data_from_upload(user_file)

ResultsFromHeldDataset ==
  (Loaded /\ ~is_none(bulk_conflicts)) =>
    /\ bulk_conflicts.df = analyze_conflicts(processed_data.user_tcodes,
                                             processed_data.function_map,
                                             processed_data.risk_pairs).df
    /\ ~is_none(user_summary_df) =>
         user_summary_df.df
           = create_user_summary(analyze_conflicts(processed_data.user_tcodes,
                                                   processed_data.function_map,
                                                   processed_data.risk_pairs).df,
                                 processed_data.user_tcodes)

\* C21 (as claimed).  The step of a load run that finds a schema mismatch in
\* the risk file is taken before the run has built the user-role assignments
\* or the user-to-transaction-code mapping.
SchemaValidatedBeforeGraph ==
  [][(LoadRiskData /\ SchemaMismatch(risk_file)) =>
       /\ load_run'.pc = "stopped"
       /\ {"user_roles", "user_tcodes"} \cap DOMAIN load_run = {}]_vars

\* the names of the six held tables
TableNames ==
  {"user_data", "user_roles", "role_tcodes", "user_tcodes", "function_map", "risk_pairs"}

\* a dataset that a load run yields on one upload of three files of the
\* session: the tables loaded from the three files and the two tables
\* derived from them, none of them empty
FromSingleUpload(data) ==
  /\ DOMAIN data = TableNames
  /\ \E file \in SessionUserFiles : data.user_data = load_user_data_from_upload(file)
  /\ \E file \in SessionRolesFiles :
        [df |-> data.role_tcodes] = load_role_tcode_mapping_from_upload(file)
  /\ \E file \in SessionRiskFiles :
        LET risk == load_risk_data_from_upload(file)
        IN  /\ ~is_none(risk)
            /\ data.function_map = risk.function_map
            /\ data.risk_pairs = risk.risk_pairs
  /\ data.user_roles = load_user_role_assignments_from_upload(data.user_data)
  /\ data.user_tcodes = create_user_tcode_mapping(data.user_roles, data.role_tcodes)
  /\ data.role_tcodes # <<>> /\ data.user_roles # <<>> /\ ~empty(data.user_tcodes)

\* a step that writes the held dataset is the last step of a load run whose
\* five load steps succeeded, and it replaces all six tables by the tables
\* the run built from the uploaded files
DatasetWrittenLast ==
  processed_data' # processed_data =>
    /\ load_run.pc = "store" /\ load_run'.pc = "done"
    /\ TableNames \subseteq DOMAIN load_run
    /\ ~is_none(load_run.user_data) /\ ~is_none(load_run.role_tcodes)
    /\ load_run.role_tcodes.df # <<>> /\ load_run.user_roles # <<>>
    /\ ~empty(load_run.user_tcodes)
    /\ ~is_none(load_risk_data_from_upload(risk_file))
    /\ DOMAIN processed_data' = TableNames
    /\ processed_data' = process_files(user_file, roles_file, risk_file)

\* the held dataset is empty or the six tables of one upload
DatasetEmptyOrComplete ==
  is_empty(processed_data) \/ FromSingleUpload(processed_data)

\* with an empty held dataset no query has been run
NoQueryWhileEmpty ==
  is_empty(processed_data) =>
    is_none(user_analysis) /\ is_none(bulk_conflicts) /\ is_none(user_summary_df)

\* C22.  The held dataset is written only by the last step of a load run
\* whose five load steps succeeded, as one replacement of all six tables; so
\* it is always empty or the complete set of tables of a single upload, and
\* no single-user or bulk result exists while it is empty.
DatasetWrittenAtomically ==
  /\ [](DatasetEmptyOrComplete /\ NoQueryWhileEmpty)
  /\ [][DatasetWrittenLast]_vars

\* C22 witness: a load run has just replaced a held dataset on which a bulk
\* query had been run, so the stored bulk result is that of the dataset
\* held before.
DatasetWrittenAtomicallyWitness ==
  /\ load_run.pc = "done" /\ Loaded
  /\ ~is_none(bulk_conflicts)
  /\ bulk_conflicts.df # analyze_conflicts(processed_data.user_tcodes,
                                           processed_data.function_map,
                                           processed_data.risk_pairs).df

====
